---- MODULE Spec2Model ----
(***************************************************************************)
(* Order / cart / inventory workflow of the secondhand-book storefront     *)
(* (src/app.py).  The relational store is modelled by three tables keyed   *)
(* by primary key (books, orders, items); the Flask session cart by one    *)
(* list of book ids per logged-in user; resp is the answer to the last     *)
(* request handled (handler and result).  Only POST requests are modelled: *)
(* a GET writes nothing.  Money is counted in hundredths (Numeric(10, 2)). *)
(***************************************************************************)
EXTENDS Integers, Sequences, FiniteSets, TLC

VARIABLES books, orders, items, cart, resp

vars == <<books, orders, items, cart, resp>>

-----------------------------------------------------------------------------
(* Bounds of the model *)

\* book ids and order ids handed out stay within these
MaxBooks == 2
MaxOrders == 1

-----------------------------------------------------------------------------
(* Users: rows of the users table; is_admin is never written by a handler *)

Users == {1, 2, 3}
Admins == {3}

\* the users who list books, and the users who shop
Sellers == {1}
Shoppers == {1}

is_admin(u) == u \in Admins

BookIds == 1..MaxBooks
OrderIds == 1..MaxOrders
\* an order gets at most one item per book, after all items of earlier orders
ItemIds == 1..(MaxBooks * MaxOrders)

\* a fifth status let through by the admin form check
StatusesAndShipped == {"new", "processing", "completed", "cancelled", "shipped"}

OrderStatuses == {"new", "processing", "completed", "cancelled"}

\* status strings an admin form may post: the enumerated ones and a stray one
StatusInputs == OrderStatuses \cup {"shipped"}

-----------------------------------------------------------------------------
(* Form inputs *)

\* the price field of the book form, as typed
PriceRaw == {"5.00", "7,50", "abc"}

\* f["price"].replace(",", ".") followed by Decimal(...): does it parse
PriceParses(raw) == raw \in {"5.00", "7,50"}

\* the parsed price in hundredths
PriceValue(raw) == IF raw = "5.00" THEN 500 ELSE 750

Prices == {PriceValue(raw) : raw \in {r \in PriceRaw : PriceParses(r)}}

\* str.strip() on the field values used here
Strip(s) == IF s = " " THEN "" ELSE s

\* `value or None`
OrNone(s) == IF s = "" THEN "None" ELSE s

ShippingForms ==
    { [full_name |-> "Ann", phone |-> "555", address |-> "Elm St", email |-> "a@x", comment |-> ""],
      [full_name |-> "Bob", phone |-> "777", address |-> "Oak Rd", email |-> " ", comment |-> "ring"],
      [full_name |-> " ",   phone |-> "555", address |-> "Elm St", email |-> "a@x", comment |-> ""],
      [full_name |-> "Ann", phone |-> "",    address |-> "Elm St", email |-> "a@x", comment |-> ""],
      [full_name |-> "Bob", phone |-> "777", address |-> " ",      email |-> "",    comment |-> ""] }

\* `full_name and phone and address` after strip()
RequiredFilled(f) ==
    /\ Strip(f.full_name) # ""
    /\ Strip(f.phone) # ""
    /\ Strip(f.address) # ""

\* the shipping columns of an Order written from a form
ShippingOf(f) ==
    [full_name |-> Strip(f.full_name),
     phone     |-> Strip(f.phone),
     address   |-> Strip(f.address),
     email     |-> OrNone(Strip(f.email)),
     comment   |-> OrNone(Strip(f.comment))]

-----------------------------------------------------------------------------
(* Helpers on tables *)

Max(S) == IF S = {} THEN 0 ELSE CHOOSE x \in S : \A y \in S : y <= x

\* INTEGER PRIMARY KEY of a SQLite table: the next rowid is the largest + 1
NextId(S) == Max(S) + 1

Drop(f, ks) == [k \in DOMAIN f \ ks |-> f[k]]

\* order.items: the ids of the OrderItem rows of an order
ItemsOf(its, oid) == {i \in DOMAIN its : its[i].order_id = oid}

RECURSIVE SumItems(_, _)
SumItems(its, S) ==
    IF S = {} THEN 0
    ELSE LET i == CHOOSE x \in S : TRUE
         IN  its[i].price_at_time * its[i].quantity + SumItems(its, S \ {i})

\* the total recomputed from the live Book prices instead of the snapshots
recalc_live(its, oid) ==
    LET S == {i \in DOMAIN its : its[i].order_id = oid /\ its[i].book_id \in DOMAIN books}
        F[T \in SUBSET S] ==
            IF T = {} THEN 0
            ELSE LET i == CHOOSE x \in T : TRUE
                 IN  books[its[i].book_id].price * its[i].quantity + F[T \ {i}]
    IN  F[S]

\* recalc_order_total left out: the total written earlier stays
recalc_stale(its, oid) == orders[oid].total

\* coalesce(sum(price_at_time * quantity), 0) over the order's rows,
\* quantized to hundredths (the unit used here)
recalc_order_total(its, oid) == SumItems(its, ItemsOf(its, oid))

\* the ownership check left out
ForbiddenNobody(u, oid) == FALSE

\* `order.user_id != current_user.id and not current_user.is_admin`
Forbidden(u, oid) == orders[oid].user_id # u /\ ~is_admin(u)

\* books whose row exists among the referenced ones: hasattr(item.book, "is_available")
BooksOfItems(its, S) == {its[i].book_id : i \in S} \cap DOMAIN books

Restock(bs, S) == [b \in DOMAIN bs |-> IF b \in S THEN [bs[b] EXCEPT !.is_available = TRUE] ELSE bs[b]]

\* what a request answers: the handler and its result (redirect with a flash, 400, 403)
Response(op, code) == [op |-> op, code |-> code]

-----------------------------------------------------------------------------
Init ==
    /\ books = [b \in {} |-> 0]
    /\ orders = [o \in {} |-> 0]
    /\ items = [i \in {} |-> 0]
    /\ cart = [u \in Users |-> <<>>]
    /\ resp = Response("none", "ok")

-----------------------------------------------------------------------------
(* Book CRUD.  A request for an id with no row (404) and a form whose price   *)
(* does not parse end the handler before any write; they are the guards.      *)

\* POST /book/new: _book_form(None)
book_create(u, raw) ==
    /\ NextId(DOMAIN books) <= MaxBooks
    /\ PriceParses(raw)
    /\ books' = books @@ (NextId(DOMAIN books) :>
                    [price |-> PriceValue(raw), is_available |-> TRUE, owner_id |-> u])
    /\ resp' = Response("book_create", "ok")
    /\ UNCHANGED <<orders, items, cart>>

\* who may POST /book/<id>/edit
MayEditBook(u, b) == books[b].owner_id = u

\* POST /book/<id>/edit
book_edit(u, b, raw) ==
    /\ b \in DOMAIN books
    /\ IF ~MayEditBook(u, b)
          THEN /\ resp' = Response("book_edit", "forbidden")
               /\ UNCHANGED <<books, orders, items, cart>>
          ELSE /\ PriceParses(raw)
               /\ books' = [books EXCEPT ![b].price = PriceValue(raw)]
               /\ resp' = Response("book_edit", "ok")
               /\ UNCHANGED <<orders, items, cart>>

\* who may POST /book/<id>/delete
MayDeleteBook(u, b) == is_admin(u) \/ books[b].owner_id = u

\* a delete cascade from Book to the order_items rows that name it
ItemsOfBook(its, b) == {i \in DOMAIN its : its[i].book_id = b}

\* the order_items rows that go with a deleted book: none, Book has no
\* relationship to OrderItem and SQLite does not enforce the foreign key
DeletedWithBook(its, b) == {}

\* POST /book/<id>/delete: the row goes, rows of order_items that name it stay
book_delete(u, b) ==
    /\ b \in DOMAIN books
    /\ IF ~MayDeleteBook(u, b)
          THEN /\ resp' = Response("book_delete", "forbidden")
               /\ UNCHANGED <<books, orders, items, cart>>
          ELSE /\ books' = Drop(books, {b})
               /\ items' = Drop(items, DeletedWithBook(items, b))
               /\ resp' = Response("book_delete", "ok")
               /\ UNCHANGED <<orders, cart>>

-----------------------------------------------------------------------------
(* Cart *)

InSeq(x, s) == \E k \in 1..Len(s) : s[k] = x

\* len(session.get("cart", [])): the count shown in the page header
cart_count(c) == Len(c)

\* the `not in cart` test left out: the id is appended each time
CartAppend(c, b) == Append(c, b)

\* session["cart"] after add_to_cart: append unless already present
CartAdd(c, b) == IF InSeq(b, c) THEN c ELSE Append(c, b)

\* POST /add_to_cart/<id>
add_to_cart(u, b) ==
    /\ b \in DOMAIN books
    /\ IF ~books[b].is_available
          THEN /\ resp' = Response("add_to_cart", "unavailable")
               /\ UNCHANGED <<books, orders, items, cart>>
          ELSE /\ cart' = [cart EXCEPT ![u] = CartAdd(cart[u], b)]
               /\ resp' = Response("add_to_cart", "ok")
               /\ UNCHANGED <<books, orders, items>>

\* the comparison inverted: only the removed id is kept
CartOnly(c, b) == SelectSeq(c, LAMBDA x : x = b)

\* [bid for bid in cart if bid != book_id]
CartWithout(c, b) == SelectSeq(c, LAMBDA x : x # b)

\* POST /cart/remove/<id>
cart_remove(u, b) ==
    /\ cart' = [cart EXCEPT ![u] = CartWithout(cart[u], b)]
    /\ resp' = Response("cart_remove", "ok")
    /\ UNCHANGED <<books, orders, items>>

SeqSet(s) == {s[k] : k \in 1..Len(s)}

\* the rows fetched with an availability test added to the query
CartBooksAvailable(c) == {b \in SeqSet(c) \cap DOMAIN books : books[b].is_available}

\* Book.query.filter(Book.id.in_(cart_ids)).all(): the rows that exist
CartBooks(c) == SeqSet(c) \cap DOMAIN books

\* the first fetched row taken at every turn of the loop
NthFirst(S, k) == CHOOSE x \in S : \A y \in S : x <= y

\* the k-th smallest element of S (rows come back in primary-key order)
RECURSIVE Nth(_, _)
Nth(S, k) ==
    LET m == CHOOSE x \in S : \A y \in S : x <= y
    IN  IF k = 1 THEN m ELSE Nth(S \ {m}, k - 1)

\* price_at_time left out of the OrderItem constructor
SnapshotMissing(b) == 0

\* the price checkout snapshots into an OrderItem for book b
SnapshotPrice(b) == books[b].price

\* the OrderItem rows added by checkout for order oid: one per fetched book
NewItems(bs, oid) ==
    LET base == Max(DOMAIN items)
    IN  [i \in (base + 1)..(base + Cardinality(bs)) |->
            [order_id      |-> oid,
             book_id       |-> Nth(bs, i - base),
             price_at_time |-> SnapshotPrice(Nth(bs, i - base)),
             quantity      |-> 1]]

\* total += b.price over the fetched books
RECURSIVE SumPrices(_)
SumPrices(bs) ==
    IF bs = {} THEN 0
    ELSE LET b == CHOOSE x \in bs : TRUE
         IN  books[b].price + SumPrices(bs \ {b})

\* the phone left out of the required fields
CheckoutFormNoPhone(f) == Strip(f.full_name) # "" /\ Strip(f.address) # ""

\* `full_name and phone and address` in cart_checkout
CheckoutFormOk(f) == RequiredFilled(f)

\* books after checkout: every fetched book is hidden from the catalog
Purchased(bs) ==
    [b \in DOMAIN books |->
        IF b \in bs THEN [books[b] EXCEPT !.is_available = FALSE] ELSE books[b]]

\* session cart after a successful checkout: session.pop("cart")
CartAfterCheckout(c) == <<>>

\* cart_checkout from the reading of the form on: validation, then the writes
checkout_submit(u, f) ==
    IF ~CheckoutFormOk(f)
    THEN /\ resp' = Response("cart_checkout", "invalid_form")
         /\ UNCHANGED <<books, orders, items, cart>>
    ELSE LET bs  == CartBooks(cart[u])
             oid == NextId(DOMAIN orders)
         IN  /\ orders' = orders @@ (oid :>
                    [user_id  |-> u,
                     total    |-> SumPrices(bs),
                     status   |-> "new",
                     shipping |-> ShippingOf(f)])
             /\ items' = items @@ NewItems(bs, oid)
             /\ books' = Purchased(bs)
             /\ cart' = [cart EXCEPT ![u] = CartAfterCheckout(@)]
             /\ resp' = Response("cart_checkout", "ok")

\* POST /cart/checkout
cart_checkout(u) ==
    IF cart[u] = <<>> \/ CartBooks(cart[u]) = {}
    THEN /\ resp' = Response("cart_checkout", "empty_cart")
         /\ UNCHANGED <<books, orders, items, cart>>
    ELSE \E f \in ShippingForms : checkout_submit(u, f)

-----------------------------------------------------------------------------
(* Order lifecycle *)

\* `order.status in ("completed", "cancelled")`
IsTerminal(st) == st \in {"completed", "cancelled"}

\* may order_edit act on an order in this status
Editable(st) == ~IsTerminal(st)

\* `full_name and phone and address` in order_edit
EditFormOk(f) == RequiredFilled(f)

\* the membership test inverted: the ticked items are the ones deleted
EditRemovesKept(its, oid, keep) == {i \in ItemsOf(its, oid) : its[i].book_id \in keep}

\* the OrderItem rows order_edit deletes: those whose book is not kept
EditRemoved(its, oid, keep) == {i \in ItemsOf(its, oid) : its[i].book_id \notin keep}

\* order_edit from the reading of the form on: validation, then the writes
edit_submit(oid, f, keep) ==
    IF ~EditFormOk(f)
    THEN /\ resp' = Response("order_edit", "invalid_form")
         /\ UNCHANGED <<books, orders, items, cart>>
    ELSE LET left == Drop(items, EditRemoved(items, oid, keep))
         IN  /\ items' = left
             /\ orders' = [orders EXCEPT ![oid].shipping = ShippingOf(f),
                                         ![oid].total = recalc_order_total(left, oid)]
             /\ resp' = Response("order_edit", "ok")
             /\ UNCHANGED <<books, cart>>

\* POST /orders/<id>/edit
order_edit(u, oid) ==
    /\ oid \in DOMAIN orders
    /\ IF Forbidden(u, oid)
          THEN /\ resp' = Response("order_edit", "forbidden")
               /\ UNCHANGED <<books, orders, items, cart>>
       ELSE IF ~Editable(orders[oid].status)
          THEN /\ resp' = Response("order_edit", "terminal")
               /\ UNCHANGED <<books, orders, items, cart>>
       ELSE \E f \in ShippingForms, keep \in SUBSET BookIds : edit_submit(oid, f, keep)

\* only `cancelled` tested: a completed order can be cancelled
CancellableUnlessCancelled(st) == st # "cancelled"

\* may order_cancel act on an order in this status
Cancellable(st) == ~IsTerminal(st)

\* the restocking loop left out
CancelRestocksNone(oid) == {}

\* the books order_cancel makes available again
CancelRestocked(oid) == BooksOfItems(items, ItemsOf(items, oid))

\* POST /orders/<id>/cancel
order_cancel(u, oid) ==
    /\ oid \in DOMAIN orders
    /\ IF Forbidden(u, oid)
          THEN /\ resp' = Response("order_cancel", "forbidden")
               /\ UNCHANGED <<books, orders, items, cart>>
       ELSE IF ~Cancellable(orders[oid].status)
          THEN /\ resp' = Response("order_cancel", "terminal")
               /\ UNCHANGED <<books, orders, items, cart>>
       ELSE /\ books' = Restock(books, CancelRestocked(oid))
            /\ orders' = [orders EXCEPT ![oid].status = "cancelled"]
            /\ resp' = Response("order_cancel", "ok")
            /\ UNCHANGED <<items, cart>>

\* the emptied-order check left out
StatusKept(st, remaining) == st

\* the status order_item_delete leaves: cancelled once no item is left
StatusAfterItemDelete(st, remaining) == IF remaining = {} THEN "cancelled" ELSE st

\* POST /orders/<id>/items/<item_id>/delete
order_item_delete(u, oid, i) ==
    /\ oid \in DOMAIN orders
    /\ IF Forbidden(u, oid)
          THEN /\ resp' = Response("order_item_delete", "forbidden")
               /\ UNCHANGED <<books, orders, items, cart>>
       ELSE LET left == Drop(items, {i})
            IN  /\ i \in ItemsOf(items, oid)
                /\ books' = Restock(books, BooksOfItems(items, {i}))
                /\ items' = left
                /\ orders' = [orders EXCEPT
                       ![oid].total = recalc_order_total(left, oid),
                       ![oid].status = StatusAfterItemDelete(@, ItemsOf(left, oid))]
                /\ resp' = Response("order_item_delete", "ok")
                /\ UNCHANGED cart

\* Order.items declared without a cascade: the rows outlive the order
CascadeNone(its, oid) == {}

\* the OrderItem rows deleted with an order: cascade="all, delete-orphan"
Cascaded(its, oid) == ItemsOf(its, oid)

\* POST /orders/<id>/delete
order_delete(u, oid) ==
    /\ oid \in DOMAIN orders
    /\ IF Forbidden(u, oid)
          THEN /\ resp' = Response("order_delete", "forbidden")
               /\ UNCHANGED <<books, orders, items, cart>>
       ELSE /\ books' = Restock(books, BooksOfItems(items, ItemsOf(items, oid)))
            /\ orders' = Drop(orders, {oid})
            /\ items' = Drop(items, Cascaded(items, oid))
            /\ resp' = Response("order_delete", "ok")
            /\ UNCHANGED cart

\* admin_set_order_status from the reading of the form on
status_submit(oid, st) ==
    IF st \notin OrderStatuses
    THEN /\ resp' = Response("admin_set_order_status", "bad_request")
         /\ UNCHANGED <<books, orders, items, cart>>
    ELSE /\ orders' = [orders EXCEPT ![oid].status = st]
         /\ resp' = Response("admin_set_order_status", "ok")
         /\ UNCHANGED <<books, items, cart>>

\* POST /admin/orders/<id>/status
admin_set_order_status(u, oid) ==
    IF ~is_admin(u)
    THEN /\ resp' = Response("admin_set_order_status", "forbidden")
         /\ UNCHANGED <<books, orders, items, cart>>
    ELSE /\ oid \in DOMAIN orders
         /\ \E st \in StatusInputs : status_submit(oid, st)

-----------------------------------------------------------------------------
Next ==
    \/ \E u \in Sellers, raw \in PriceRaw : book_create(u, raw)
    \/ \E u \in Users, b \in BookIds, raw \in PriceRaw : book_edit(u, b, raw)
    \/ \E u \in Users, b \in BookIds : book_delete(u, b)
    \/ \E u \in Shoppers, b \in BookIds : add_to_cart(u, b)
    \/ \E u \in Shoppers, b \in BookIds : cart_remove(u, b)
    \/ \E u \in Shoppers : cart_checkout(u) /\ DOMAIN orders' \subseteq OrderIds
    \/ \E u \in Users, oid \in OrderIds : order_edit(u, oid)
    \/ \E u \in Users, oid \in OrderIds : order_cancel(u, oid)
    \/ \E u \in Users, oid \in OrderIds, i \in ItemIds : order_item_delete(u, oid, i)
    \/ \E u \in Users, oid \in OrderIds : order_delete(u, oid)
    \/ \E u \in Users, oid \in OrderIds : admin_set_order_status(u, oid)

Spec == Init /\ [][Next]_vars

-----------------------------------------------------------------------------
(* Two sessions shopping side by side: the sellers list books, either       *)
(* shopper fills a cart and checks out, and up to MaxRaceOrders orders are   *)
(* placed.                                                                    *)

MaxRaceOrders == 2

RaceShoppers == {1, 2}

NextRace ==
    \/ \E u \in Sellers, raw \in PriceRaw : book_create(u, raw)
    \/ \E u \in RaceShoppers, b \in BookIds : add_to_cart(u, b)
    \/ \E u \in RaceShoppers, b \in BookIds : cart_remove(u, b)
    \/ \E u \in RaceShoppers : cart_checkout(u) /\ DOMAIN orders' \subseteq 1..MaxRaceOrders

SpecRace == Init /\ [][NextRace]_vars

-----------------------------------------------------------------------------
(* Resale: the two shoppers also cancel and delete their orders and items,   *)
(* so a book given back by one order can be bought again by the other.       *)

ResaleOrderIds == 1..MaxRaceOrders
ResaleItemIds == 1..(MaxBooks * MaxRaceOrders)

\* every book is listed at the same price here
ResalePriceRaw == {"5.00"}

NextResale ==
    \/ \E u \in Sellers, raw \in ResalePriceRaw : book_create(u, raw)
    \/ \E u \in RaceShoppers, b \in BookIds : add_to_cart(u, b)
    \/ \E u \in RaceShoppers : cart_checkout(u) /\ DOMAIN orders' \subseteq ResaleOrderIds
    \/ \E u \in RaceShoppers, oid \in ResaleOrderIds : order_cancel(u, oid)
    \/ \E u \in RaceShoppers, oid \in ResaleOrderIds, i \in ResaleItemIds :
          order_item_delete(u, oid, i)
    \/ \E u \in RaceShoppers, oid \in ResaleOrderIds : order_delete(u, oid)

SpecResale == Init /\ [][NextResale]_vars

-----------------------------------------------------------------------------
(* Catalog: GET /books.  The handler reads the books table and the query     *)
(* string and writes nothing; resp records the query and the rows rendered.  *)
(* Text columns are sequences of one-character strings.                      *)

\* the lower-case form of each ASCII capital
LowerOf ==
    "A" :> "a" @@ "B" :> "b" @@ "C" :> "c" @@ "D" :> "d" @@ "E" :> "e" @@ "F" :> "f" @@
    "G" :> "g" @@ "H" :> "h" @@ "I" :> "i" @@ "J" :> "j" @@ "K" :> "k" @@ "L" :> "l" @@
    "M" :> "m" @@ "N" :> "n" @@ "O" :> "o" @@ "P" :> "p" @@ "Q" :> "q" @@ "R" :> "r" @@
    "S" :> "s" @@ "T" :> "t" @@ "U" :> "u" @@ "V" :> "v" @@ "W" :> "w" @@ "X" :> "x" @@
    "Y" :> "y" @@ "Z" :> "z"

\* str.lower() / SQL lower() on one ASCII character
LowerChar(ch) == IF ch \in DOMAIN LowerOf THEN LowerOf[ch] ELSE ch

Lower(s) == [k \in DOMAIN s |-> LowerChar(s[k])]

\* str.strip() on a text value: leading and trailing blanks go
RECURSIVE StripText(_)
StripText(s) ==
    IF s = <<>> THEN s
    ELSE IF Head(s) = " " THEN StripText(Tail(s))
    ELSE IF s[Len(s)] = " " THEN StripText(SubSeq(s, 1, Len(s) - 1))
    ELSE s

\* value LIKE '%pat%' for a pattern without wildcards: pat occurs in value
Like(value, pat) ==
    \E k \in 0..(Len(value) - Len(pat)) : SubSeq(value, k + 1, k + Len(pat)) = pat

\* ids of the categories table
Categories == {1, 2}

\* the title, author and category a listed book can have
BookTexts ==
    { [title |-> <<"D","u","n","e">>, author |-> <<"H","e","r","b","e","r","t">>, category_id |-> 1],
      [title |-> <<"E","m","m","a">>, author |-> <<"A","u","s","t","e","n">>, category_id |-> 2] }

\* rows of the books table with the columns the catalog reads
CatalogRows ==
    { [title |-> t.title, author |-> t.author, category_id |-> t.category_id,
       price |-> p, is_available |-> a, owner_id |-> 1] :
         t \in BookTexts, p \in Prices, a \in BOOLEAN }

\* query strings: q, genre_id, author, min_price, max_price as typed
SearchInputs == {<<>>, <<" ","U","N">>}
GenreInputs == {"", "1", "7"}
AuthorInputs == {<<>>, <<"A","U","S">>}
MinInputs == {"", "5.00", "7,50", "abc"}
MaxInputs == {"", "5.00", "abc"}

CatalogArgs ==
    [q : SearchInputs, genre_id : GenreInputs, author : AuthorInputs,
     min_price : MinInputs, max_price : MaxInputs]

\* request.args.get("genre_id", type=int); None is written 0, as falsy as 0
GenreId(raw) == IF raw = "1" THEN 1 ELSE IF raw = "7" THEN 7 ELSE 0

\* the search filter: lower(title) or lower(author) LIKE %lower(search)%
SearchFilter(row, search) ==
    search # <<>> => (Like(Lower(row.title), Lower(search)) \/ Like(Lower(row.author), Lower(search)))

\* the genre filter: join on Category, Category.id == genre_id
GenreFilter(row, genre_id) ==
    genre_id # 0 => (row.category_id \in Categories /\ row.category_id = genre_id)

\* the author filter: Book.author.ilike(%author%)
AuthorFilter(row, author) ==
    author # <<>> => Like(Lower(row.author), Lower(author))

\* the lower bound taken as exclusive
AboveMin(price, bound) == price > bound

\* Book.price >= min_dec
MeetsMin(price, bound) == price >= bound

\* Book.price <= max_dec
MeetsMax(price, bound) == price <= bound

\* the min_price filter; a value Decimal() rejects is passed over
MinFilter(row, min_p) ==
    (min_p # "" /\ PriceParses(min_p)) => MeetsMin(row.price, PriceValue(min_p))

\* the max_price filter; a value Decimal() rejects is passed over
MaxFilter(row, max_p) ==
    (max_p # "" /\ PriceParses(max_p)) => MeetsMax(row.price, PriceValue(max_p))

\* order_by(Book.created_at.desc()): ids are handed out in creation order
RECURSIVE NewestFirst(_)
NewestFirst(S) == IF S = {} THEN <<>> ELSE <<Max(S)>> \o NewestFirst(S \ {Max(S)})

\* the rows books() renders for a query string
Listing(a) ==
    NewestFirst({b \in DOMAIN books :
        /\ books[b].is_available
        /\ SearchFilter(books[b], StripText(a.q))
        /\ GenreFilter(books[b], GenreId(a.genre_id))
        /\ AuthorFilter(books[b], StripText(a.author))
        /\ MinFilter(books[b], Strip(a.min_price))
        /\ MaxFilter(books[b], Strip(a.max_price))})

\* GET /books
catalog(a) ==
    /\ resp' = [op |-> "books", code |-> "ok", args |-> a, listing |-> Listing(a)]
    /\ UNCHANGED <<books, orders, items, cart>>

\* the books table holds any rows; nothing is ordered and no cart is filled
InitCatalog ==
    /\ \E n \in 0..MaxBooks : books \in [1..n -> CatalogRows]
    /\ orders = [o \in {} |-> 0]
    /\ items = [i \in {} |-> 0]
    /\ cart = [u \in Users |-> <<>>]
    /\ resp = Response("none", "ok")

NextCatalog == \E a \in CatalogArgs : catalog(a)

SpecCatalog == InitCatalog /\ [][NextCatalog]_vars

-----------------------------------------------------------------------------
(* Properties *)

core == <<books, orders, items, cart>>

\* sum of price_at_time * quantity over the item ids in S
RECURSIVE LineSum(_, _)
LineSum(its, S) ==
    IF S = {} THEN 0
    ELSE LET i == CHOOSE x \in S : \A y \in S : x <= y
         IN  its[i].price_at_time * its[i].quantity + LineSum(its, S \ {i})

\* C1: in every reachable state every order's total equals the sum of
\* price_at_time * quantity over its current items (0 when it has none)
TotalIsSumOfItems ==
    \A o \in DOMAIN orders :
        orders[o].total = LineSum(items, {i \in DOMAIN items : items[i].order_id = o})

\* an item was just deleted from an order that keeps another one, and the
\* total is the price of the item that is left
TotalAfterItemDelete ==
    /\ resp = Response("order_item_delete", "ok")
    /\ \E o \in DOMAIN orders : \E i \in DOMAIN items :
          /\ {j \in DOMAIN items : items[j].order_id = o} = {i}
          /\ orders[o].total = items[i].price_at_time
          /\ orders[o].total > 0

\* C2: a book is unavailable exactly when an item of a non-cancelled order
\* references it
UnavailableIffHeld ==
    \A b \in DOMAIN books :
        (~books[b].is_available) <=>
            (\E i \in DOMAIN items :
                /\ items[i].book_id = b
                /\ orders[items[i].order_id].status # "cancelled")

\* the ids of the items of order o in the table its
Lines(its, o) == {i \in DOMAIN its : its[i].order_id = o}

\* C3: a successful checkout of a cart whose books all exist creates exactly
\* one order (status new, owned by the requester), one item per cart book with
\* quantity 1 and the book's price, the total of those prices, makes every
\* purchased book unavailable and empties the cart
CheckoutCreatesOrder ==
    [][\A u \in Users :
        ( /\ resp' = Response("cart_checkout", "ok")
          /\ cart_checkout(u)
          /\ SeqSet(cart[u]) \subseteq DOMAIN books )
        =>
        \E o \in DOMAIN orders' \ DOMAIN orders :
          LET new == DOMAIN items' \ DOMAIN items
          IN  /\ DOMAIN orders' = DOMAIN orders \cup {o}
              /\ \A p \in DOMAIN orders : orders'[p] = orders[p]
              /\ orders'[o].status = "new"
              /\ orders'[o].user_id = u
              /\ DOMAIN items \subseteq DOMAIN items'
              /\ \A i \in DOMAIN items : items'[i] = items[i]
              /\ Cardinality(new) = Len(cart[u])
              /\ \A b \in SeqSet(cart[u]) : \E i \in new :
                    /\ items'[i].book_id = b
                    /\ items'[i].order_id = o
                    /\ items'[i].quantity = 1
                    /\ items'[i].price_at_time = books[b].price
              /\ orders'[o].total = LineSum(items', new)
              /\ DOMAIN books' = DOMAIN books
              /\ \A b \in DOMAIN books :
                    books'[b] = IF b \in SeqSet(cart[u])
                                THEN [books[b] EXCEPT !.is_available = FALSE]
                                ELSE books[b]
              /\ cart' = [cart EXCEPT ![u] = <<>>]
      ]_vars

\* the scenario of two books at 5.00 and 7.50: one order of 12.50 with two
\* items, both books unavailable, the cart empty
CheckoutTwoBooks ==
    /\ resp = Response("cart_checkout", "ok")
    /\ \E o \in DOMAIN orders :
          /\ orders[o].total = 1250
          /\ orders[o].status = "new"
          /\ Cardinality(Lines(items, o)) = 2
          /\ {items[i].price_at_time : i \in Lines(items, o)} = {500, 750}
          /\ \A i \in Lines(items, o) :
                items[i].book_id \in DOMAIN books /\ ~books[items[i].book_id].is_available
    /\ \A u \in Users : cart[u] = <<>>

\* is a required shipping field of the form blank
BlankRequired(f) ==
    \/ f.full_name \in {"", " "}
    \/ f.phone \in {"", " "}
    \/ f.address \in {"", " "}

\* C4: a checkout with an empty cart, or with a blank full name, phone or
\* address, creates no order and no item, changes no book and leaves the cart
CheckoutRejectedChangesNothing ==
    [][resp'.op = "cart_checkout" =>
        /\ \A u \in Users : (cart[u] = <<>> /\ cart_checkout(u)) => UNCHANGED core
        /\ \A u \in Users, f \in ShippingForms :
              (BlankRequired(f) /\ cart_checkout(u) /\ checkout_submit(u, f)) => UNCHANGED core
        /\ resp'.code # "ok" => UNCHANGED core
      ]_vars

\* a checkout was rejected for its form while the cart held a book
CheckoutRejectedWithCart ==
    /\ resp = Response("cart_checkout", "invalid_form")
    /\ \E u \in Users : cart[u] # <<>> /\ SeqSet(cart[u]) \subseteq DOMAIN books
    /\ DOMAIN orders = {}
    /\ \A b \in DOMAIN books : books[b].is_available

\* C5: once an order is completed or cancelled, edit, cancel and
\* delete-single-item leave its item set and its shipping fields as they are
TerminalOrderFrozen ==
    [][\A o \in DOMAIN orders :
        ( /\ orders[o].status \in {"completed", "cancelled"}
          /\ resp'.op \in {"order_edit", "order_cancel", "order_item_delete"} )
        =>
        ( /\ o \in DOMAIN orders'
          /\ Lines(items', o) = Lines(items, o)
          /\ orders'[o].shipping = orders[o].shipping )
      ]_vars

\* C6: delete-single-item on an item of the order makes the item's book
\* available, removes exactly that item and recalculates the total; the order
\* becomes cancelled if no item is left and keeps its status otherwise
ItemDeleteEffect ==
    [][\A u \in Users, o \in DOMAIN orders, i \in DOMAIN items :
        ( /\ resp' = Response("order_item_delete", "ok")
          /\ order_item_delete(u, o, i) )
        =>
        ( /\ items[i].order_id = o
          /\ DOMAIN items' = DOMAIN items \ {i}
          /\ \A j \in DOMAIN items' : items'[j] = items[j]
          /\ DOMAIN books' = DOMAIN books
          /\ \A b \in DOMAIN books :
                books'[b] = IF b = items[i].book_id
                            THEN [books[b] EXCEPT !.is_available = TRUE]
                            ELSE books[b]
          /\ DOMAIN orders' = DOMAIN orders
          /\ \A p \in DOMAIN orders \ {o} : orders'[p] = orders[p]
          /\ orders'[o].total = LineSum(items', Lines(items', o))
          /\ orders'[o].status =
                IF Lines(items', o) = {} THEN "cancelled" ELSE orders[o].status
          /\ orders'[o].user_id = orders[o].user_id
          /\ orders'[o].shipping = orders[o].shipping
          /\ cart' = cart )
      ]_vars

\* the sole item of an order was deleted: the order is cancelled with total 0
\* and its book is back in the catalog
SoleItemDeleted ==
    /\ resp = Response("order_item_delete", "ok")
    /\ \E o \in DOMAIN orders :
          /\ Lines(items, o) = {}
          /\ orders[o].status = "cancelled"
          /\ orders[o].total = 0
    /\ DOMAIN books # {}
    /\ \A b \in DOMAIN books : books[b].is_available

\* C7: cancel by the owner or an admin on a new or processing order makes the
\* book of every item available and sets the status to cancelled; the items
\* and the total stay
CancelEffect ==
    [][\A u \in Users, o \in DOMAIN orders :
        ( /\ resp'.op = "order_cancel"
          /\ orders[o].status \in {"new", "processing"}
          /\ (orders[o].user_id = u \/ u \in Admins)
          /\ order_cancel(u, o) )
        =>
        ( /\ resp' = Response("order_cancel", "ok")
          /\ orders' = [orders EXCEPT ![o].status = "cancelled"]
          /\ items' = items
          /\ DOMAIN books' = DOMAIN books
          /\ \A b \in DOMAIN books :
                books'[b] = IF \E i \in Lines(items, o) : items[i].book_id = b
                            THEN [books[b] EXCEPT !.is_available = TRUE]
                            ELSE books[b]
          /\ cart' = cart )
      ]_vars

\* an order of two items was cancelled: both books are available again
CancelledWithItems ==
    /\ resp = Response("order_cancel", "ok")
    /\ \E o \in DOMAIN orders :
          /\ orders[o].status = "cancelled"
          /\ Cardinality(Lines(items, o)) = 2
          /\ orders[o].total > 0
          /\ \A i \in Lines(items, o) :
                items[i].book_id \in DOMAIN books /\ books[items[i].book_id].is_available

\* C8: cancel on a completed or cancelled order changes nothing, each time
CancelTerminalNoOp ==
    [][\A u \in Users, o \in DOMAIN orders :
        ( /\ resp'.op = "order_cancel"
          /\ orders[o].status \in {"completed", "cancelled"}
          /\ order_cancel(u, o) )
        => UNCHANGED core
      ]_vars

\* cancel was refused on a completed order whose book is still held
CancelRefusedOnCompleted ==
    /\ resp = Response("order_cancel", "terminal")
    /\ \E o \in DOMAIN orders :
          /\ orders[o].status = "completed"
          /\ \E i \in Lines(items, o) :
                items[i].book_id \in DOMAIN books /\ ~books[items[i].book_id].is_available

\* C9: edit, cancel, delete-single-item and delete-order requested by a user
\* who is neither the order's owner nor an admin are answered forbidden and
\* change nothing
OrderOpsOwnerOrAdminOnly ==
    [][\A u \in Users, o \in DOMAIN orders :
        ( /\ orders[o].user_id # u
          /\ u \notin Admins
          /\ \/ order_edit(u, o)
             \/ order_cancel(u, o)
             \/ \E i \in ItemIds : order_item_delete(u, o, i)
             \/ order_delete(u, o) )
        => (UNCHANGED core /\ resp'.code = "forbidden")
      ]_vars

\* another user's delete of an active order was refused
OrderDeleteForbidden ==
    /\ resp = Response("order_delete", "forbidden")
    /\ \E o \in DOMAIN orders : orders[o].status = "new" /\ Lines(items, o) # {}

\* C10: the price_at_time of an existing item never changes, a book price
\* edit changes no order, and an order's total changes only with its item set
PriceSnapshotImmutable ==
    [][ /\ \A i \in DOMAIN items \cap DOMAIN items' :
              items'[i].price_at_time = items[i].price_at_time
        /\ resp'.op = "book_edit" => (orders' = orders /\ items' = items)
        /\ \A o \in DOMAIN orders \cap DOMAIN orders' :
              Lines(items', o) = Lines(items, o) => orders'[o].total = orders[o].total
      ]_vars

\* a book was re-priced after it was bought: the item keeps the old price
RepricedAfterPurchase ==
    /\ resp = Response("book_edit", "ok")
    /\ \E i \in DOMAIN items :
          /\ items[i].book_id \in DOMAIN books
          /\ ~books[items[i].book_id].is_available
          /\ books[items[i].book_id].price # items[i].price_at_time
          /\ orders[items[i].order_id].total = items[i].price_at_time

\* C11: every order that has no item is cancelled, never new or processing
EmptyOrderIsCancelled ==
    \A o \in DOMAIN orders :
        Lines(items, o) = {} => orders[o].status = "cancelled"

\* C12: an order edit accepted for the owner or an admin on a new or
\* processing order leaves exactly the items whose book is in the kept set,
\* deletes the others, adds none (a kept id matching no item does nothing)
\* and sets the total to the sum over the items that are left
EditKeepsSelectedItems ==
    [][\A o \in DOMAIN orders, f \in ShippingForms, keep \in SUBSET BookIds :
        ( /\ resp' = Response("order_edit", "ok")
          /\ orders[o].status \in {"new", "processing"}
          /\ ~BlankRequired(f)
          /\ edit_submit(o, f, keep)
          /\ \E u \in Users :
                (orders[o].user_id = u \/ u \in Admins) /\ order_edit(u, o) )
        =>
        ( /\ DOMAIN items' =
                {i \in DOMAIN items : items[i].order_id = o => items[i].book_id \in keep}
          /\ \A i \in DOMAIN items' : items'[i] = items[i]
          /\ orders'[o].total = LineSum(items', Lines(items', o))
          /\ DOMAIN orders' = DOMAIN orders )
      ]_vars

\* an edit kept one of two items: the order holds that one item at its price
EditDroppedOneOfTwo ==
    /\ resp = Response("order_edit", "ok")
    /\ Cardinality(DOMAIN books) = 2
    /\ \A b \in DOMAIN books : ~books[b].is_available
    /\ \E o \in DOMAIN orders : \E i \in DOMAIN items :
          /\ Lines(items, o) = {i}
          /\ orders[o].total = items[i].price_at_time
          /\ orders[o].status = "new"

\* C13: delete-order by the owner or an admin makes every book referenced by
\* the order's items available, then removes the order and all of its items
OrderDeleteEffect ==
    [][\A u \in Users, o \in DOMAIN orders :
        ( /\ resp'.op = "order_delete"
          /\ (orders[o].user_id = u \/ u \in Admins)
          /\ order_delete(u, o) )
        =>
        ( /\ resp'.code = "ok"
          /\ DOMAIN orders' = DOMAIN orders \ {o}
          /\ \A p \in DOMAIN orders' : orders'[p] = orders[p]
          /\ DOMAIN items' = DOMAIN items \ Lines(items, o)
          /\ \A j \in DOMAIN items' : items'[j] = items[j]
          /\ DOMAIN books' = DOMAIN books
          /\ \A b \in DOMAIN books :
                books'[b] = IF \E i \in Lines(items, o) : items[i].book_id = b
                            THEN [books[b] EXCEPT !.is_available = TRUE]
                            ELSE books[b]
          /\ cart' = cart )
      ]_vars

\* an order was deleted: no order and no item is left, and books bought
\* with it are back in the catalog
OrderDeletedWithItems ==
    /\ resp = Response("order_delete", "ok")
    /\ DOMAIN orders = {}
    /\ DOMAIN items = {}
    /\ Cardinality(DOMAIN books) = 2
    /\ \A b \in DOMAIN books : books[b].is_available

\* C14: the admin status transition sets the order's status to the posted
\* value when it is new, processing, completed or cancelled, whatever the
\* current status, and changes nothing else; any other value is a bad
\* request that leaves the order as it is; a non-admin is answered forbidden
AdminSetsAnyStatus ==
    [][resp'.op = "admin_set_order_status" =>
        /\ \A u \in Users \ Admins, o \in OrderIds :
              admin_set_order_status(u, o) => (UNCHANGED core /\ resp'.code = "forbidden")
        /\ \A o \in DOMAIN orders, st \in StatusInputs :
              ( /\ status_submit(o, st)
                /\ \E u \in Admins : admin_set_order_status(u, o) )
              =>
              IF st \in {"new", "processing", "completed", "cancelled"}
              THEN /\ resp'.code = "ok"
                   /\ orders' = [orders EXCEPT ![o].status = st]
                   /\ UNCHANGED <<books, items, cart>>
              ELSE /\ resp'.code = "bad_request"
                   /\ UNCHANGED core
      ]_vars

\* an admin put an order back to new after it was cancelled: its items are
\* there and their books are in the catalog
ReopenedByAdmin ==
    /\ resp = Response("admin_set_order_status", "ok")
    /\ \E o \in DOMAIN orders :
          /\ orders[o].status = "new"
          /\ Lines(items, o) # {}
          /\ \A i \in Lines(items, o) :
                items[i].book_id \in DOMAIN books /\ books[items[i].book_id].is_available

\* C15: adding an unavailable book is rejected and leaves the cart; adding an
\* available book already in the cart leaves the cart; adding an available
\* book not in the cart appends exactly that id
AddToCartEffect ==
    [][\A u \in Users, b \in DOMAIN books :
        ( /\ resp'.op = "add_to_cart"
          /\ add_to_cart(u, b) )
        =>
        ( /\ UNCHANGED <<books, orders, items>>
          /\ IF ~books[b].is_available
                THEN resp'.code = "unavailable" /\ cart' = cart
             ELSE IF \E k \in DOMAIN cart[u] : cart[u][k] = b
                THEN cart' = cart
             ELSE cart' = [cart EXCEPT ![u] = cart[u] \o <<b>>] )
      ]_vars

\* a book already bought was refused while the cart held another book
AddRefusedUnavailable ==
    /\ resp = Response("add_to_cart", "unavailable")
    /\ \E u \in Users, b \in DOMAIN books :
          /\ ~books[b].is_available
          /\ cart[u] # <<>>
          /\ \A k \in DOMAIN cart[u] : cart[u][k] # b

\* does the list hold some id twice
HasDuplicate(c) == \E j, k \in DOMAIN c : j # k /\ c[j] = c[k]

\* C16: after any add, remove or checkout no cart holds an id twice and
\* count() is the number of distinct ids in it; remove deletes the id when it
\* is there and changes nothing otherwise
CartHasNoDuplicates ==
    [][ /\ \A u \in Users :
              /\ ~HasDuplicate(cart'[u])
              /\ cart_count(cart'[u]) = Cardinality({cart'[u][k] : k \in DOMAIN cart'[u]})
        /\ \A u \in Users, b \in BookIds :
              (resp'.op = "cart_remove" /\ cart_remove(u, b)) =>
                  /\ UNCHANGED <<books, orders, items>>
                  /\ \A v \in Users \ {u} : cart'[v] = cart[v]
                  /\ {cart'[u][k] : k \in DOMAIN cart'[u]} =
                        {cart[u][k] : k \in DOMAIN cart[u]} \ {b}
                  /\ (\A k \in DOMAIN cart[u] : cart[u][k] # b) => cart' = cart
      ]_vars

\* one of two ids was removed from a cart: the other one is left
RemovedOneOfTwo ==
    /\ resp = Response("cart_remove", "ok")
    /\ Cardinality(DOMAIN books) = 2
    /\ \E u \in Users : cart_count(cart[u]) = 1 /\ cart[u][1] = 2

\* C17: the catalog lists exactly the available books that satisfy every
\* supplied filter: no unavailable book whatever the filters, min_price and
\* max_price inclusive, and a bound that is not a number counts as omitted
CatalogListsAvailableMatches ==
    resp.op = "books" =>
        LET a     == resp.args
            shown == {resp.listing[k] : k \in DOMAIN resp.listing}
            lo    == a.min_price
            hi    == a.max_price
        IN  /\ Len(resp.listing) = Cardinality(shown)
            /\ \A b \in shown : b \in DOMAIN books /\ books[b].is_available
            /\ shown = {b \in DOMAIN books :
                  /\ books[b].is_available
                  /\ SearchFilter(books[b], StripText(a.q))
                  /\ GenreFilter(books[b], GenreId(a.genre_id))
                  /\ AuthorFilter(books[b], StripText(a.author))
                  /\ lo = "5.00" => books[b].price >= 500
                  /\ lo = "7,50" => books[b].price >= 750
                  /\ hi = "5.00" => books[b].price <= 500}
            /\ lo = "abc" => resp.listing = Listing([a EXCEPT !.min_price = ""])
            /\ hi = "abc" => resp.listing = Listing([a EXCEPT !.max_price = ""])

\* a query with min_price abc and max_price 5.00 over two books at 5.00, one
\* of them bought: the listing is the other one
CatalogBoundsScenario ==
    /\ resp.op = "books"
    /\ resp.args.min_price = "abc"
    /\ resp.args.max_price = "5.00"
    /\ DOMAIN books = {1, 2}
    /\ books[1].price = 500 /\ books[1].is_available
    /\ books[2].price = 500 /\ ~books[2].is_available
    /\ resp.listing = <<1>>

\* C18: book edit and book delete go through exactly when the requester is
\* the book's owner or an admin; for every other user they are answered
\* forbidden and the book stays as it is
BookOpsOwnerOrAdmin ==
    [][\A u \in Users, b \in DOMAIN books :
        ( /\ resp'.op \in {"book_edit", "book_delete"}
          /\ \/ \E raw \in PriceRaw : book_edit(u, b, raw)
             \/ book_delete(u, b) )
        =>
        IF books[b].owner_id = u \/ u \in Admins
        THEN resp'.code = "ok"
        ELSE resp'.code = "forbidden" /\ UNCHANGED core
      ]_vars

\* C19: except by the admin status transition, an order's status changes
\* only from new to processing, from processing to completed, or from new or
\* processing to cancelled: nothing else moves a completed order to
\* cancelled or takes an order out of completed or cancelled
StatusFollowsLifecycle ==
    [][resp'.op # "admin_set_order_status" =>
        \A o \in DOMAIN orders \cap DOMAIN orders' :
            orders'[o].status # orders[o].status =>
                <<orders[o].status, orders'[o].status>> \in
                    { <<"new", "processing">>, <<"processing", "completed">>,
                      <<"new", "cancelled">>, <<"processing", "cancelled">> }
      ]_vars

\* C20: checkout tests that the cart's books exist, not that they are still
\* available: a checkout with valid shipping fields of a cart whose books
\* exist succeeds and makes an item for every one of them, also for a book
\* another session has bought meanwhile, whose earlier item and order stay
CheckoutIgnoresAvailability ==
    [][\A u \in Users, f \in ShippingForms :
        ( /\ resp'.op = "cart_checkout"
          /\ cart[u] # <<>>
          /\ \A k \in DOMAIN cart[u] : cart[u][k] \in DOMAIN books
          /\ ~BlankRequired(f)
          /\ cart_checkout(u)
          /\ checkout_submit(u, f) )
        =>
        ( /\ resp'.code = "ok"
          /\ \E o \in DOMAIN orders' \ DOMAIN orders :
                /\ orders'[o].status = "new"
                /\ \A k \in DOMAIN cart[u] :
                      \E i \in Lines(items', o) : items'[i].book_id = cart[u][k]
          /\ \A i \in DOMAIN items :
                /\ i \in DOMAIN items' /\ items'[i] = items[i]
                /\ orders'[items[i].order_id] = orders[items[i].order_id] )
      ]_vars

\* both sessions checked out the same book: it is an item of two orders that
\* are both new
BookInTwoActiveOrders ==
    /\ resp = Response("cart_checkout", "ok")
    /\ \E i, j \in DOMAIN items :
          /\ items[i].order_id # items[j].order_id
          /\ items[i].book_id = items[j].book_id
          /\ orders[items[i].order_id].status = "new"
          /\ orders[items[j].order_id].status = "new"
          /\ orders[items[i].order_id].user_id # orders[items[j].order_id].user_id

\* C21: order cancel, delete-single-item and delete-order never make
\* available a book that an item of a different order which is not
\* cancelled references
RestockSparesHeldBooks ==
    [][\A u \in Users, o \in DOMAIN orders :
        ( /\ resp'.op \in {"order_cancel", "order_item_delete", "order_delete"}
          /\ \/ order_cancel(u, o)
             \/ \E i \in DOMAIN items : order_item_delete(u, o, i)
             \/ order_delete(u, o) )
        =>
        \A b \in DOMAIN books :
            (~books[b].is_available /\ books'[b].is_available) =>
                ~\E j \in DOMAIN items :
                    /\ items[j].book_id = b
                    /\ items[j].order_id # o
                    /\ orders[items[j].order_id].status # "cancelled"
      ]_vars

\* C22: in every reachable state no order has two items that reference the
\* same book
OneItemPerBook ==
    \A i, j \in DOMAIN items :
        (items[i].order_id = items[j].order_id /\ items[i].book_id = items[j].book_id)
            => i = j

\* an order of two items went through an edit that kept both: they are for
\* two different books
EditKeptTwoBooks ==
    /\ resp = Response("order_edit", "ok")
    /\ \E o \in DOMAIN orders :
          /\ Cardinality(Lines(items, o)) = 2
          /\ Cardinality({items[i].book_id : i \in Lines(items, o)}) = 2

\* the existing books that items of order o reference
HeldBooks(o) == {items[i].book_id : i \in Lines(items, o)} \cap DOMAIN books

\* does order o have an item whose book row is gone
HasMissingBook(o) == \E i \in Lines(items, o) : items[i].book_id \notin DOMAIN books

\* C23: deleting a book leaves every order item as it is; on an order with
\* an item whose book is gone, cancel, delete-single-item and delete-order by
\* the owner or an admin still go through, make available only the books
\* that exist and change the status or remove rows as usual; a checkout of a
\* cart holding the id of a deleted book makes items for the existing books
\* only
MissingBookIsSkipped ==
    [][ /\ resp' = Response("book_delete", "ok") => (items' = items /\ orders' = orders)
        /\ \A u \in Users, o \in DOMAIN orders :
              ( /\ resp'.op \in {"order_cancel", "order_item_delete", "order_delete"}
                /\ HasMissingBook(o)
                /\ (orders[o].user_id = u \/ u \in Admins) )
              =>
              /\ (orders[o].status \in {"new", "processing"} /\ order_cancel(u, o)) =>
                    /\ resp'.code = "ok"
                    /\ orders' = [orders EXCEPT ![o].status = "cancelled"]
                    /\ items' = items
                    /\ books' = [b \in DOMAIN books |->
                          IF b \in HeldBooks(o)
                          THEN [books[b] EXCEPT !.is_available = TRUE] ELSE books[b]]
              /\ order_delete(u, o) =>
                    /\ resp'.code = "ok"
                    /\ DOMAIN orders' = DOMAIN orders \ {o}
                    /\ DOMAIN items' = DOMAIN items \ Lines(items, o)
                    /\ books' = [b \in DOMAIN books |->
                          IF b \in HeldBooks(o)
                          THEN [books[b] EXCEPT !.is_available = TRUE] ELSE books[b]]
              /\ \A i \in Lines(items, o) :
                    (items[i].book_id \notin DOMAIN books /\ order_item_delete(u, o, i)) =>
                        /\ resp'.code = "ok"
                        /\ books' = books
                        /\ DOMAIN items' = DOMAIN items \ {i}
                        /\ orders'[o].status =
                              IF Lines(items', o) = {} THEN "cancelled" ELSE orders[o].status
                        /\ orders'[o].total = LineSum(items', Lines(items', o))
        /\ \A u \in Users :
              ( /\ resp' = Response("cart_checkout", "ok")
                /\ \E k \in DOMAIN cart[u] : cart[u][k] \notin DOMAIN books
                /\ cart_checkout(u) )
              =>
              {items'[i].book_id : i \in DOMAIN items' \ DOMAIN items} =
                  {cart[u][k] : k \in DOMAIN cart[u]} \cap DOMAIN books
      ]_vars

\* an order was cancelled after one of its two books was deleted: the other
\* book is available again and both items are still there
CancelledWithMissingBook ==
    /\ resp = Response("order_cancel", "ok")
    /\ \E o \in DOMAIN orders :
          /\ orders[o].status = "cancelled"
          /\ Cardinality(Lines(items, o)) = 2
          /\ HasMissingBook(o)
          /\ \E b \in HeldBooks(o) : books[b].is_available

====
